---- MODULE Spec2Model ----
(***************************************************************************)
(* The rPPG video-to-vitals pipeline of src/rppg_refactored.py as a state  *)
(* machine: SignalExtractor.extract (one step per frame),                  *)
(* SignalProcessor.process, VitalsEstimator.estimate, RiskAssessor.assess, *)
(* driven by estimate_vitals_from_video.                                   *)
(*                                                                         *)
(* Numbers.  A float is an exact rational [num, den] in lowest terms with  *)
(* den > 0; NaN is 0/0.  A standard deviation is held as its square        *)
(* ([sq |-> variance]), so no root is taken.  Frequencies are in           *)
(* centihertz and the detection ratio in percent.  Optional values are     *)
(* None or, for integers, Some(n).                                         *)
(*                                                                         *)
(* Library calls.  scipy's filtfilt, welch and find_peaks and numpy's std  *)
(* of the band-passed channels are calls into code outside the repository. *)
(* Their results are chosen nondeterministically within what the library   *)
(* guarantees: welch's frequency grid is k*fs/nperseg, find_peaks returns  *)
(* increasing, non-adjacent interior indices at least `distance` apart and *)
(* raises for distance < 1, filtfilt may raise (it does for inputs not     *)
(* longer than its pad length).                                            *)
(***************************************************************************)
EXTENDS Integers, Sequences, FiniteSets, TLC

\* ------------------------------------------------------------------ bounds
MaxFrames == 5

\* --------------------------------------------------------------- constants
BANDPASS_LOW == 75           \* centihertz
BANDPASS_HIGH == 300         \* centihertz
FPS_DEFAULT == 30
MIN_DETECTION_RATIO == 25    \* percent
MIN_HR == 30
MAX_HR == 220
MIN_PEAKS_FOR_HRV == 3
PEAK_MIN_DISTANCE == 4       \* tenths of a second

\* --------------------------------------------------------------- rationals
RECURSIVE Gcd(_, _)
Gcd(a, b) == IF b = 0 THEN a ELSE Gcd(b, a % b)

Abs(x) == IF x < 0 THEN -x ELSE x
Min(a, b) == IF a < b THEN a ELSE b
Max(a, b) == IF a > b THEN a ELSE b

NaN == [num |-> 0, den |-> 0]
None == [none |-> TRUE]
Some(n) == [some |-> n]

IsNaN(x) == x.den = 0

Q(n, d) ==
    LET s == IF d < 0 THEN -1 ELSE 1
        g == Gcd(Abs(n), Abs(d))
    IN  IF d = 0 THEN NaN ELSE [num |-> (s * n) \div g, den |-> (s * d) \div g]

QInt(n) == [num |-> n, den |-> 1]

\* Comparisons are false when either side is NaN, as for floats.
QLt(a, b) == ~IsNaN(a) /\ ~IsNaN(b) /\ a.num * b.den < b.num * a.den
QLe(a, b) == ~IsNaN(a) /\ ~IsNaN(b) /\ a.num * b.den <= b.num * a.den
QGt(a, b) == QLt(b, a)
QGe(a, b) == QLe(b, a)

QAdd(a, b) ==
    IF IsNaN(a) \/ IsNaN(b) THEN NaN
    ELSE Q(a.num * b.den + b.num * a.den, a.den * b.den)
QSub(a, b) ==
    IF IsNaN(a) \/ IsNaN(b) THEN NaN
    ELSE Q(a.num * b.den - b.num * a.den, a.den * b.den)
QMul(a, b) ==
    IF IsNaN(a) \/ IsNaN(b) THEN NaN ELSE Q(a.num * b.num, a.den * b.den)
QDiv(a, b) ==
    IF IsNaN(a) \/ IsNaN(b) THEN NaN ELSE Q(a.num * b.den, a.den * b.num)
QAbs(a) == [num |-> Abs(a.num), den |-> a.den]

\* int(x) for x >= 0.
QFloor(a) == a.num \div a.den

\* np.clip(x, lo, hi); NaN stays NaN.
QClip(x, lo, hi) == IF QLt(x, lo) THEN lo ELSE IF QGt(x, hi) THEN hi ELSE x

\* np.sum over s[lo..hi], halving the range.
RECURSIVE QSumRange(_, _, _)
QSumRange(s, lo, hi) ==
    IF lo > hi THEN QInt(0)
    ELSE IF lo = hi THEN s[lo]
    ELSE LET mid == (lo + hi) \div 2
         IN  QAdd(QSumRange(s, lo, mid), QSumRange(s, mid + 1, hi))

QSum(s) == QSumRange(s, 1, Len(s))

RECURSIVE SumSeq(_)
SumSeq(s) == IF s = <<>> THEN 0 ELSE Head(s) + SumSeq(Tail(s))

\* ------------------------------------------------------------------ inputs
\* What the scene shows in the forehead patch of frame i (mean intensities).
Scenes == {"flat", "pulse", "greenOnly"}
GreenAt(scene, i) == QInt(IF scene = "flat" THEN 2 ELSE IF i % 2 = 1 THEN 1 ELSE 3)
RedAt(scene, i) ==
    QInt(IF scene = "greenOnly" THEN 0
         ELSE IF scene = "flat" THEN 2
         ELSE IF i % 2 = 1 THEN 2 ELSE 3)

\* Frame rates a container may declare: unknown (0, NaN), below the filter's
\* reach, low, ordinary for the bounded clip, and implausibly high.
DeclaredFps == {QInt(0), NaN, QInt(1), QInt(2), QInt(5), QInt(150)}

FramesOf(scene, mask) ==
    [i \in 1..Len(mask) |->
        [face |-> mask[i], green |-> GreenAt(scene, i), red |-> RedAt(scene, i)]]

Masks == UNION {[1..n -> BOOLEAN] : n \in 0..MaxFrames}

\* A video file: whether it opens, its declared frame rate and frame count
\* (0 when the container does not know it), and its frames in capture order.
Videos ==
    UNION {{[opened |-> TRUE, fps |-> f, frame_count |-> c, frames |-> FramesOf(sc, m)] :
                f \in DeclaredFps, c \in {0, Len(m)}, sc \in Scenes} : m \in Masks}
    \cup {[opened |-> FALSE, fps |-> QInt(0), frame_count |-> 0, frames |-> <<>>]}

\* progress_callback: not passed, or a caller's function, which may return or
\* raise each time it is called.
Callbacks == {None, [callable |-> TRUE]}

VARIABLES
    video,            \* the clip passed to estimate_vitals_from_video
    progress_callback,\* the callback passed to it, or None
    callback_calls,   \* the calls made to the callback: <<frames_done, total>>
    pc,               \* position in estimate_vitals_from_video
    fps,              \* extract: local fps
    total_frames,     \* extract: local total_frames (None when undeclared)
    greens, reds,     \* extract: the two channel series
    detected_frames,  \* extract: local detected_frames
    frame_idx,        \* extract: local frame_idx
    signal_data,      \* SignalData returned by extract, or None
    filtered_signal,  \* FilteredSignal returned by process, or None
    vitals,           \* VitalsEstimate returned by estimate, or None
    risk,             \* RiskAssessment returned by assess, or None
    error,            \* the exception that ended the call, or None
    stages,           \* stages entered so far, in order
    closed,           \* number of detector.close() calls
    fn, arg, ret,     \* a function applied on its own: name, argument, result
    now,              \* API server: datetime.utcnow(), seconds since start
    VIDEO_CACHE,      \* API server: request id -> cached entry
    analyze_pc,       \* API server: position of each /analyze request
    outcome,          \* API server: how each /analyze request ended
    tmp_files,        \* API server: requests whose tmp_path file exists
    tmp_dirs,         \* API server: requests whose tmp_dir exists
    background_tasks, \* API server: cleanup_cache tasks queued, per request
    served,           \* API server: the last entry GET /results returned
    clock,            \* live camera: time.time(), in seconds
    recording_active, recording_start_time, process_complete, countdown_active,
    countdown_start, alignment_stable_start, video_writer, output_path,
                      \* live camera: the fields of SharedState
    recv_pc,          \* live camera: position of recv inside its lock block
    recv_now,         \* live camera: recv's local now
    guidance,         \* live camera: current_guidance of the last frame
    aligned_since,    \* live camera: time of the first frame of the unbroken
                      \* run of aligned frames that the last frame ends (0: none)
    ui_result         \* live camera: what live_camera_interface returned

extractVars == <<fps, total_frames, greens, reds, detected_frames, frame_idx>>
resultVars == <<signal_data, filtered_signal, vitals, risk>>
inputVars == <<video, progress_callback>>
pipelineVars ==
    <<inputVars, callback_calls, pc, extractVars, resultVars, error, stages, closed>>
callVars == <<fn, arg, ret>>
serviceVars ==
    <<now, VIDEO_CACHE, analyze_pc, outcome, tmp_files, tmp_dirs, background_tasks, served>>
sharedStateVars ==
    <<recording_active, recording_start_time, process_complete, countdown_active,
      countdown_start, alignment_stable_start, video_writer, output_path>>
recorderVars ==
    <<clock, sharedStateVars, recv_pc, recv_now, guidance, aligned_since, ui_result>>
appVars == <<serviceVars, recorderVars>>
vars == <<pipelineVars, callVars, appVars>>

\* ------------------------------------------------------------ API server
\* /analyze requests the server handles in one run, and how far its clock runs.
MaxRequests == 2
MaxTicks == 3

CACHE_TTL == 3600
MAX_CACHE_SIZE == 100

Requests == 1..MaxRequests

\* The server as it starts: empty cache, no request yet, nothing on disk.
ServiceStart ==
    /\ now = 0
    /\ VIDEO_CACHE = [id \in {} |-> None]
    /\ analyze_pc = [r \in Requests |-> "idle"]
    /\ outcome = [r \in Requests |-> "none"]
    /\ tmp_files = {}
    /\ tmp_dirs = {}
    /\ background_tasks = {}
    /\ served = None

\* ------------------------------------------------------------ live camera
\* How far the recorder's clock runs, in seconds.
MaxRecorderClock == 23

\* The literals of recv: seconds of stable alignment, of countdown and of
\* recording.
STABLE_SECONDS == 2
COUNTDOWN_SECONDS == 3
RECORD_SECONDS == 15

\* SharedState() as FaceGuidanceProcessor.__init__ builds it, before the first
\* frame; time.time() is positive.
RecorderStart ==
    /\ clock = 1
    /\ recording_active = FALSE
    /\ recording_start_time = 0
    /\ process_complete = FALSE
    /\ countdown_active = FALSE
    /\ countdown_start = 0
    /\ alignment_stable_start = 0
    /\ video_writer = "none"
    /\ output_path = "none"
    /\ recv_pc = "idle"
    /\ recv_now = 0
    /\ guidance = "none"
    /\ aligned_since = 0
    /\ ui_result = "polling"

\* ------------------------------------------------- SignalExtractor.extract
\* fps = cap.get(CAP_PROP_FPS), replaced by the default when 0 or NaN.
ReadFps(declared) ==
    IF declared = QInt(0) \/ IsNaN(declared) THEN QInt(FPS_DEFAULT) ELSE declared

\* total_frames = int(cap.get(CAP_PROP_FRAME_COUNT)) or None
ReadTotalFrames(count) == IF count = 0 THEN None ELSE Some(count)

\* The detection-quality test that follows the scan.
LowDetection(total, detected) ==
    /\ total # None
    /\ detected * 100 < total.some * MIN_DETECTION_RATIO

MakeSignalData(g, r, f, detected, idx) ==
    [green |-> g, red |-> r, fps |-> f,
     detected_frames |-> detected, total_frames |-> idx]

\* Raise with a retry: the failure is recorded and the pipeline starts over.
RaiseAndRetry(kind) ==
    /\ pc' = "open"
    /\ error' = kind
    /\ closed' = closed

\* An exception leaving estimate_vitals_from_video with the detector released
\* on the returning path only.
RaiseWithoutClose(kind) ==
    /\ pc' = "failed"
    /\ error' = kind
    /\ closed' = closed

\* An exception leaves estimate_vitals_from_video through its finally clause.
Raise(kind) ==
    /\ pc' = "failed"
    /\ error' = kind
    /\ closed' = closed + 1

\* detector = FaceDetector(...); extractor = SignalExtractor(detector)
Construct ==
    /\ pc = "init"
    /\ pc' = "open"
    /\ UNCHANGED <<inputVars, callback_calls, extractVars, resultVars, error, stages, closed, callVars, appVars>>

\* cap = cv2.VideoCapture(video_path) fails to open.
ExtractOpenFail ==
    /\ pc = "open"
    /\ ~video.opened
    /\ stages' = Append(stages, "extract")
    /\ Raise("CouldNotOpen")
    /\ UNCHANGED <<inputVars, callback_calls, extractVars, resultVars, callVars, appVars>>

\* extract with the two series kept in attributes of the class, shared by
\* every call, instead of locals.
ExtractOpenSharedSeries ==
    /\ pc = "open"
    /\ video.opened
    /\ stages' = Append(stages, "extract")
    /\ fps' = ReadFps(video.fps)
    /\ total_frames' = ReadTotalFrames(video.frame_count)
    /\ greens' = greens
    /\ reds' = reds
    /\ detected_frames' = 0
    /\ frame_idx' = 0
    /\ pc' = "scan"
    /\ UNCHANGED <<inputVars, callback_calls, resultVars, error, closed, callVars, appVars>>

\* extract up to the frame loop: fps, total_frames and the empty series.
ExtractOpen ==
    /\ pc = "open"
    /\ video.opened
    /\ stages' = Append(stages, "extract")
    /\ fps' = ReadFps(video.fps)
    /\ total_frames' = ReadTotalFrames(video.frame_count)
    /\ greens' = <<>>
    /\ reds' = <<>>
    /\ detected_frames' = 0
    /\ frame_idx' = 0
    /\ pc' = "scan"
    /\ UNCHANGED <<inputVars, callback_calls, resultVars, error, closed, callVars, appVars>>

\* The frame loop appending nothing for a frame without a valid ROI.
ScanFrameSkippingMissing ==
    /\ pc = "scan"
    /\ frame_idx < Len(video.frames)
    /\ LET frame == video.frames[frame_idx + 1] IN
        IF frame.face
        THEN /\ greens' = Append(greens, frame.green)
             /\ reds' = Append(reds, frame.red)
             /\ detected_frames' = detected_frames + 1
        ELSE /\ greens' = greens
             /\ reds' = reds
             /\ detected_frames' = detected_frames
    /\ frame_idx' = frame_idx + 1
    /\ callback_calls' =
          IF progress_callback # None /\ total_frames # None
          THEN Append(callback_calls, <<frame_idx + 1, total_frames.some>>)
          ELSE callback_calls

\* The body of the frame loop up to the callback: the sample (or NaN) is
\* appended to both series and frame_idx is incremented; the callback is
\* called when one was passed and the container declared a frame count.
ScanFrame ==
    /\ pc = "scan"
    /\ frame_idx < Len(video.frames)
    /\ LET frame == video.frames[frame_idx + 1] IN
        IF frame.face
        THEN /\ greens' = Append(greens, frame.green)
             /\ reds' = Append(reds, frame.red)
             /\ detected_frames' = detected_frames + 1
        ELSE /\ greens' = Append(greens, NaN)
             /\ reds' = Append(reds, NaN)
             /\ detected_frames' = detected_frames
    /\ frame_idx' = frame_idx + 1
    /\ callback_calls' =
          IF progress_callback # None /\ total_frames # None
          THEN Append(callback_calls, <<frame_idx + 1, total_frames.some>>)
          ELSE callback_calls

\* One iteration of the frame loop: cap.read() returned a frame, and the
\* callback, if called, returned.
ExtractFrame ==
    /\ ScanFrame
    /\ UNCHANGED <<inputVars, pc, fps, total_frames, resultVars, error, stages, closed, callVars, appVars>>

\* One iteration of the frame loop in which progress_callback raises: the
\* call is not guarded, so the exception leaves extract.
ExtractFrameCallbackRaises ==
    /\ ScanFrame
    /\ progress_callback # None
    /\ total_frames # None
    /\ Raise("CallbackRaised")
    /\ UNCHANGED <<inputVars, fps, total_frames, resultVars, stages, callVars, appVars>>

\* cap.read() returned no frame and the detection test raises.
ExtractLowDetection ==
    /\ pc = "scan"
    /\ frame_idx = Len(video.frames)
    /\ LowDetection(total_frames, detected_frames)
    /\ Raise("LowDetectionRate")
    /\ UNCHANGED <<inputVars, callback_calls, extractVars, resultVars, stages, callVars, appVars>>

\* cap.read() returned no frame and extract returns its SignalData.
ExtractReturn ==
    /\ pc = "scan"
    /\ frame_idx = Len(video.frames)
    /\ ~LowDetection(total_frames, detected_frames)
    /\ signal_data' = MakeSignalData(greens, reds, fps, detected_frames, frame_idx)
    /\ pc' = "process"
    /\ UNCHANGED <<inputVars, callback_calls, extractVars, filtered_signal, vitals, risk, error, stages, closed, callVars, appVars>>

\* ------------------------------------------------- SignalProcessor.process
HasNaN(signal) == \E i \in 1..Len(signal) : IsNaN(signal[i])
AllNaN(signal) == \A i \in 1..Len(signal) : IsNaN(signal[i])

\* interpolate_nans: linear interpolation inside gaps, the nearest valid
\* sample before the first and after the last valid one; a series with no
\* valid sample stays all NaN.
InterpolateNans(signal) ==
    IF AllNaN(signal) THEN signal
    ELSE
      [i \in 1..Len(signal) |->
        IF ~IsNaN(signal[i]) THEN signal[i]
        ELSE
          LET before == {j \in 1..(i - 1) : ~IsNaN(signal[j])}
              after == {j \in (i + 1)..Len(signal) : ~IsNaN(signal[j])}
              p == CHOOSE j \in before : \A k \in before : k <= j
              q == CHOOSE j \in after : \A k \in after : j <= k
          IN  IF before = {} THEN signal[q]
              ELSE IF after = {} THEN signal[p]
              ELSE QAdd(signal[p],
                        QMul(QSub(signal[q], signal[p]), Q(i - p, q - p)))]

\* scipy.signal.detrend (linear): the residual of the least-squares line
\* through (0, y[1]) .. (n-1, y[n]); with D = n * sum(i^2) - sum(i)^2 and
\* S = n * sum(i * y) - sum(i) * sum(y) it is
\*   (n * D * y[i] - D * sum(y) - S * (n * i - sum(i))) / (n * D).
\* A single sample is fitted exactly.  NaN anywhere makes every residual NaN.
Detrend(y) ==
    LET n == Len(y)
        si == SumSeq([i \in 1..n |-> i - 1])
        sii == SumSeq([i \in 1..n |-> (i - 1) * (i - 1)])
        sy == QSum(y)
        siy == QSum([i \in 1..n |-> QMul(QInt(i - 1), y[i])])
        D == n * sii - si * si
        S == QSub(QMul(QInt(n), siy), QMul(QInt(si), sy))
    IN  IF HasNaN(y) THEN [i \in 1..n |-> NaN]
        ELSE IF n = 1 THEN <<QInt(0)>>
        ELSE [i \in 1..n |->
                QDiv(QSub(QSub(QMul(QInt(n * D), y[i]), QMul(QInt(D), sy)),
                          QMul(S, QInt(n * (i - 1) - si))),
                     QInt(n * D))]

\* std_green < 1e-8.  The smallest non-zero deviation a bounded series of
\* these samples can have is far above 1e-8, so the test is "every residual
\* is 0"; np.std is NaN, and the comparison false, for an empty or NaN series.
StdNearZero(x) ==
    /\ Len(x) > 0
    /\ \A i \in 1..Len(x) : x[i] = QInt(0)

QMax(a, b) == IF QLt(a, b) THEN b ELSE a
QMin(a, b) == IF QLt(a, b) THEN a ELSE b

\* butter_bandpass_filter: the normalised band edges for sampling rate fs
\* (nyq = 0.5 * fs; lowcut and highcut in centihertz).
BandLow(lowcut, fs) ==
    QMax(QDiv(QInt(2 * lowcut), QMul(QInt(100), fs)), Q(1, 1000000))
BandHigh(highcut, fs) ==
    QMin(QDiv(QInt(2 * highcut), QMul(QInt(100), fs)), Q(999, 1000))

\* The guard `low >= high` that raises "Invalid bandpass range".
InvalidBandpassRange(lowcut, highcut, fs) ==
    QGe(BandLow(lowcut, fs), BandHigh(highcut, fs))

\* welch(filtered, fs, nperseg): nperseg and the frequency axis (centihertz).
Nperseg(n) == Min(256, n)
WelchFreqs(fs, nperseg) ==
    [k \in 1..((nperseg \div 2) + 1) |-> QMul(Q(100 * (k - 1), nperseg), fs)]

\* The in-band mask (freqs >= BANDPASS_LOW) & (freqs <= BANDPASS_HIGH).
InBand(freqs) ==
    {k \in 1..Len(freqs) :
        QGe(freqs[k], QInt(BANDPASS_LOW)) /\ QLe(freqs[k], QInt(BANDPASS_HIGH))}

\* Power spectra welch may return over `bins` frequencies: each bin weak or
\* strong.  A NaN input gives NaN in every bin.
PsdChoices(bins, nan) ==
    IF nan THEN {[k \in 1..bins |-> NaN]} ELSE [1..bins -> {QInt(0), QInt(1)}]

\* snr = power_in / (power_out + 1e-8), or 0.0 without an in-band bin.
Snr(psd, freqs) ==
    LET band == InBand(freqs)
        pin == QSum([k \in 1..Len(psd) |-> IF k \in band THEN psd[k] ELSE QInt(0)])
        pout == QSum([k \in 1..Len(psd) |-> IF k \in band THEN QInt(0) ELSE psd[k]])
    IN  IF band = {} THEN QInt(0)
        ELSE QDiv(pin, QAdd(pout, Q(1, 100000000)))

\* The first three steps of process: gap filling, detrending, the variance test.
\* The variance test made on the gap-filled series before detrending.
DegenerateBeforeDetrend(sd) ==
    LET g == InterpolateNans(sd.green)
    IN  Len(g) > 0 /\ \A i \in 1..Len(g) : g[i] = g[1]

Degenerate(sd) == StdNearZero(Detrend(InterpolateNans(sd.green)))

\* process raises ValueError out of detrend: scipy's least-squares fit
\* rejects non-finite input, which is what a series with no detected face at
\* all still is after gap filling.  Builds whose detrend lets NaN through go on
\* with a NaN series instead.
ProcessDetrendNonFinite ==
    /\ pc = "process"
    /\ HasNaN(InterpolateNans(signal_data.green))
    /\ stages' = Append(stages, "process")
    /\ Raise("DetrendNonFinite")
    /\ UNCHANGED <<inputVars, callback_calls, extractVars, resultVars, callVars, appVars>>

\* process raises "near-zero variance".
ProcessDegenerate ==
    /\ pc = "process"
    /\ Degenerate(signal_data)
    /\ stages' = Append(stages, "process")
    /\ Raise("DegenerateSignal")
    /\ UNCHANGED <<inputVars, callback_calls, extractVars, resultVars, callVars, appVars>>

\* process raises RuntimeError("Filtering failed: Invalid bandpass range").
ProcessBandInvalid ==
    /\ pc = "process"
    /\ ~Degenerate(signal_data)
    /\ InvalidBandpassRange(BANDPASS_LOW, BANDPASS_HIGH, signal_data.fps)
    /\ stages' = Append(stages, "process")
    /\ Raise("FilteringFailed: invalid bandpass range")
    /\ UNCHANGED <<inputVars, callback_calls, extractVars, resultVars, callVars, appVars>>

\* process raises RuntimeError("Filtering failed: ...") because filtfilt
\* raised, as it does for inputs not longer than its pad length.
ProcessFiltfiltFail ==
    /\ pc = "process"
    /\ ~Degenerate(signal_data)
    /\ ~InvalidBandpassRange(BANDPASS_LOW, BANDPASS_HIGH, signal_data.fps)
    /\ stages' = Append(stages, "process")
    /\ Raise("FilteringFailed: filtfilt")
    /\ UNCHANGED <<inputVars, callback_calls, extractVars, resultVars, callVars, appVars>>

\* process returns a FilteredSignal.  The filtered samples are not held;
\* signal_nan records whether they are NaN.
ProcessReturn ==
    /\ pc = "process"
    /\ ~Degenerate(signal_data)
    /\ ~InvalidBandpassRange(BANDPASS_LOW, BANDPASS_HIGH, signal_data.fps)
    /\ Len(signal_data.green) > 0
    /\ stages' = Append(stages, "process")
    /\ LET n == Len(signal_data.green)
           nan == HasNaN(InterpolateNans(signal_data.green))
           freqs == WelchFreqs(signal_data.fps, Nperseg(n))
       IN  \E psd \in PsdChoices(Len(freqs), nan) :
             filtered_signal' =
                [signal_len |-> n, signal_nan |-> nan,
                 sampling_rate |-> signal_data.fps,
                 psd |-> psd, psd_freqs |-> freqs, snr |-> Snr(psd, freqs)]
    /\ pc' = "estimate"
    /\ UNCHANGED <<inputVars, callback_calls, extractVars, signal_data, vitals, risk, error, closed, callVars, appVars>>

\* ------------------------------------------------------- VitalsEstimator
RECURSIVE SortedSeq(_)
SortedSeq(S) ==
    IF S = {} THEN <<>>
    ELSE LET m == CHOOSE x \in S : \A y \in S : x <= y
         IN  <<m>> \o SortedSeq(S \ {m})

\* np.argmax: the first maximum, or the first NaN when there is one.
ArgMax(a) ==
    IF HasNaN(a)
    THEN CHOOSE j \in 1..Len(a) : IsNaN(a[j]) /\ \A i \in 1..(j - 1) : ~IsNaN(a[i])
    ELSE CHOOSE j \in 1..Len(a) :
            /\ \A i \in 1..Len(a) : QLe(a[i], a[j])
            /\ \A i \in 1..(j - 1) : QLt(a[i], a[j])

\* Confidence from the SNR.
Confidence(snr) ==
    IF QGt(snr, QInt(2)) THEN "HIGH" ELSE IF QGt(snr, QInt(1)) THEN "MEDIUM" ELSE "LOW"

\* estimate_heart_rate with the peak taken over the whole spectrum
\* and converted without the plausibility test.
EstimateHeartRateWholeSpectrum(fs) ==
    [error |-> "none",
     bpm |-> QMul(fs.psd_freqs[ArgMax(fs.psd)], Q(60, 100)),
     confidence |-> Confidence(fs.snr)]

\* estimate_heart_rate: the in-band PSD peak as BPM, or the error it raises.
EstimateHeartRate(fs) ==
    LET valid_band == SortedSeq(InBand(fs.psd_freqs))
        masked == [j \in 1..Len(valid_band) |-> fs.psd[valid_band[j]]]
        peak_idx == ArgMax(masked)
        peak_freq == fs.psd_freqs[valid_band[peak_idx]]
        bpm == QMul(peak_freq, Q(60, 100))
    IN  IF valid_band = <<>>
        THEN [error |-> "NoValidFrequencyBins", bpm |-> NaN, confidence |-> "LOW"]
        ELSE IF QLt(bpm, QInt(MIN_HR)) \/ QGt(bpm, QInt(MAX_HR))
        THEN [error |-> "ImplausibleHeartRate", bpm |-> bpm, confidence |-> "LOW"]
        ELSE [error |-> "none", bpm |-> bpm, confidence |-> Confidence(fs.snr)]

\* min_distance = int(max(1, PEAK_MIN_DISTANCE * fps))
MinDistance(f) == QFloor(QMax(QInt(1), QMul(Q(PEAK_MIN_DISTANCE, 10), f)))

\* The distance of the second pass, int(0.3 * fps).
RetryDistance(f) == QFloor(QMul(Q(3, 10), f))

\* find_peaks(signal, distance): the index sequences it may return for a
\* signal of n samples (0-based indices).  A peak is a strict local maximum,
\* so it is interior and no two are adjacent; any two are at least
\* `distance` apart.  A NaN signal has no peak.
FindPeaks(n, distance, nan) ==
    IF nan THEN {<<>>}
    ELSE {SortedSeq(P) : P \in
            {P \in SUBSET (1..(n - 2)) :
                \A a, b \in P : a < b => (b - a >= distance /\ b - a >= 2)}}

\* np.diff(peaks) / fps * 1000.0 when there are two peaks or more.
RrOfPeaks(peaks, f) ==
    IF Len(peaks) >= 2
    THEN [i \in 1..(Len(peaks) - 1) |->
            QMul(QDiv(QInt(peaks[i + 1] - peaks[i]), f), QInt(1000))]
    ELSE <<>>

\* estimate_rr_intervals: every outcome the two find_peaks calls allow.
\* passes counts the find_peaks calls and first_peaks the peaks of the first;
\* find_peaks raises ValueError for a distance below 1.
EstimateRrIntervals(fs, f) ==
    LET first == FindPeaks(fs.signal_len, MinDistance(f), fs.signal_nan)
        retry == IF RetryDistance(f) < 1 THEN {}
                 ELSE FindPeaks(fs.signal_len, RetryDistance(f), fs.signal_nan)
    IN  UNION {
            IF Len(p) >= MIN_PEAKS_FOR_HRV
            THEN {[error |-> "none", rr_intervals |-> RrOfPeaks(p, f),
                   passes |-> 1, first_peaks |-> Len(p)]}
            ELSE IF RetryDistance(f) < 1
            THEN {[error |-> "FindPeaksDistance", rr_intervals |-> <<>>,
                   passes |-> 2, first_peaks |-> Len(p)]}
            ELSE {[error |-> "none", rr_intervals |-> RrOfPeaks(q, f),
                   passes |-> 2, first_peaks |-> Len(p)] : q \in retry}
            : p \in first}

Root(x) == [sq |-> x]

\* np.std(x): the population standard deviation, held as its square
\* mean(x^2) - mean(x)^2.
Std(x) ==
    LET n == QInt(Len(x))
        mean == QDiv(QSum(x), n)
        meansq == QDiv(QSum([i \in 1..Len(x) |-> QMul(x[i], x[i])]), n)
    IN  Root(QSub(meansq, QMul(mean, mean)))

\* np.mean(x)
Mean(x) == QDiv(QSum(x), QInt(Len(x)))

\* The gate of compute_hrv_metrics opened one interval early.
ComputeHrvMetricsFromTwo(rr) ==
    IF Len(rr) < MIN_PEAKS_FOR_HRV - 1
    THEN [sdnn |-> Root(NaN), pnn50 |-> NaN]
    ELSE
      LET nn50 == Cardinality({i \in 1..(Len(rr) - 1) :
                        QGt(QAbs(QSub(rr[i + 1], rr[i])), QInt(50))})
      IN  [sdnn |-> Std(rr),
           pnn50 |-> IF Len(rr) > 1 THEN Q(100 * nn50, Len(rr) - 1) ELSE QInt(0)]

\* compute_hrv_metrics counting the differences of 50 ms and more.
ComputeHrvMetricsFrom50(rr) ==
    IF Len(rr) < MIN_PEAKS_FOR_HRV
    THEN [sdnn |-> Root(NaN), pnn50 |-> NaN]
    ELSE
      LET nn50 == Cardinality({i \in 1..(Len(rr) - 1) :
                        QGe(QAbs(QSub(rr[i + 1], rr[i])), QInt(50))})
      IN  [sdnn |-> Std(rr),
           pnn50 |-> IF Len(rr) > 1 THEN Q(100 * nn50, Len(rr) - 1) ELSE QInt(0)]

\* compute_hrv_metrics: (sdnn, pnn50), both NaN below three intervals.
ComputeHrvMetrics(rr) ==
    IF Len(rr) < MIN_PEAKS_FOR_HRV
    THEN [sdnn |-> Root(NaN), pnn50 |-> NaN]
    ELSE
      LET nn50 == Cardinality({i \in 1..(Len(rr) - 1) :
                        QGt(QAbs(QSub(rr[i + 1], rr[i])), QInt(50))})
      IN  [sdnn |-> Std(rr),
           pnn50 |-> IF Len(rr) > 1 THEN Q(100 * nn50, Len(rr) - 1) ELSE QInt(0)]

\* estimate_stress_level with 9.0 for the lowest pNN50 class.
EstimateStressLevelNine(sdnn, pnn50) ==
    IF IsNaN(pnn50) THEN NaN
    ELSE
      LET stress == IF QLt(pnn50, QInt(5)) THEN QInt(9)
                    ELSE IF QLt(pnn50, QInt(15)) THEN Q(11, 2)
                    ELSE IF QLt(pnn50, QInt(30)) THEN QInt(3)
                    ELSE QInt(1)
      IN  QClip(stress, QInt(0), QInt(10))

\* estimate_stress_level
EstimateStressLevel(sdnn, pnn50) ==
    IF IsNaN(pnn50) THEN NaN
    ELSE
      LET stress == IF QLt(pnn50, QInt(5)) THEN QInt(8)
                    ELSE IF QLt(pnn50, QInt(15)) THEN Q(11, 2)
                    ELSE IF QLt(pnn50, QInt(30)) THEN QInt(3)
                    ELSE QInt(1)
      IN  QClip(stress, QInt(0), QInt(10))

\* experimental_bp_estimate with the diastolic value 10 below the systolic.
ExperimentalBpEstimateNarrow(bpm, sdnn) ==
    LET sbp_range == IF QLt(bpm, QInt(60)) THEN <<105, 120>>
                     ELSE IF QLt(bpm, QInt(80)) THEN <<115, 130>>
                     ELSE <<125, 145>>
        sbp == Q(sbp_range[1] + sbp_range[2], 2)
    IN  [sbp |-> sbp, dbp |-> QSub(sbp, QInt(10))]

\* experimental_bp_estimate
ExperimentalBpEstimate(bpm, sdnn) ==
    LET sbp_range == IF QLt(bpm, QInt(60)) THEN <<105, 120>>
                     ELSE IF QLt(bpm, QInt(80)) THEN <<115, 130>>
                     ELSE <<125, 145>>
        sbp == Q(sbp_range[1] + sbp_range[2], 2)
    IN  [sbp |-> sbp, dbp |-> QSub(sbp, QInt(40))]

\* The AC amplitude np.std(band-passed channel) may take.  Detrending and
\* filtering are linear, so a channel that is a straight line after gap
\* filling has amplitude 0; a NaN channel has amplitude NaN.
AcChoices(channel, amplitudes) ==
    IF HasNaN(channel) THEN {NaN}
    ELSE IF StdNearZero(Detrend(channel)) THEN {QInt(0)}
    ELSE amplitudes
AcRedAmplitudes == {QInt(1), QInt(2)}
AcGreenAmplitudes == {QInt(1), QInt(4)}

\* dc = mean(channel) if abs(mean(channel)) > 1e-6 else 1.0
Dc(channel) ==
    LET m == Mean(channel) IN IF QGt(QAbs(m), Q(1, 1000000)) THEN m ELSE QInt(1)

\* ratio = (ac_red / dc_red) / (ac_green / dc_green + 1e-12), then
\* spo2 = clip(104 - 18 * ratio, 70, 100).  The 1e-12 decides the result
\* only when ac_green is 0: the ratio is then 0 or beyond every bound.
Spo2OfRatio(ac_red, dc_red, ac_green, dc_green) ==
    LET ratio == QDiv(QDiv(ac_red, dc_red), QDiv(ac_green, dc_green))
    IN  IF IsNaN(ac_red) \/ IsNaN(ac_green) THEN NaN
        ELSE IF ac_green = QInt(0)
        THEN (IF ac_red = QInt(0) THEN QInt(100) ELSE QInt(70))
        ELSE QClip(QSub(QInt(104), QMul(QInt(18), ratio)), QInt(70), QInt(100))

\* experimental_spo2_estimate: the values it may return; None when an
\* exception is caught (the band is invalid, or filtfilt raised).
ExperimentalSpo2Estimate(sd) ==
    LET red == InterpolateNans(sd.red)
        green == InterpolateNans(sd.green)
    IN  {None} \cup
        (IF InvalidBandpassRange(BANDPASS_LOW, BANDPASS_HIGH, sd.fps) THEN {}
         ELSE {Spo2OfRatio(ac_red, Dc(red), ac_green, Dc(green)) :
                 ac_red \in AcChoices(red, AcRedAmplitudes),
                 ac_green \in AcChoices(green, AcGreenAmplitudes)})

\* estimate letting a failure of the SpO2 estimator escape.
EstimatePropagatingSpo2(fs, sd) ==
    LET hr == EstimateHeartRate(fs)
        rrs == EstimateRrIntervals(fs, sd.fps)
    IN  IF hr.error # "none" THEN {[error |-> hr.error, vitals |-> None]}
        ELSE UNION {
          IF o.error # "none" THEN {[error |-> o.error, vitals |-> None]}
          ELSE
            LET hrv == ComputeHrvMetrics(o.rr_intervals)
                bp == ExperimentalBpEstimate(hr.bpm, hrv.sdnn)
            IN  {IF spo2 = None THEN [error |-> "Spo2Failed", vitals |-> None]
                 ELSE
                 [error |-> "none",
                  vitals |->
                    [heart_rate_bpm |-> hr.bpm,
                     heart_rate_confidence |-> hr.confidence,
                     rr_intervals |-> o.rr_intervals,
                     sdnn |-> hrv.sdnn,
                     pnn50 |-> hrv.pnn50,
                     stress_level |-> EstimateStressLevel(hrv.sdnn, hrv.pnn50),
                     bp_systolic |-> bp.sbp,
                     bp_diastolic |-> bp.dbp,
                     spo2 |-> spo2]] : spo2 \in ExperimentalSpo2Estimate(sd)}
          : o \in rrs}

\* estimate: every outcome, as [error, vitals].
Estimate(fs, sd) ==
    LET hr == EstimateHeartRate(fs)
        rrs == EstimateRrIntervals(fs, sd.fps)
    IN  IF hr.error # "none" THEN {[error |-> hr.error, vitals |-> None]}
        ELSE UNION {
          IF o.error # "none" THEN {[error |-> o.error, vitals |-> None]}
          ELSE
            LET hrv == ComputeHrvMetrics(o.rr_intervals)
                bp == ExperimentalBpEstimate(hr.bpm, hrv.sdnn)
            IN  {[error |-> "none",
                  vitals |->
                    [heart_rate_bpm |-> hr.bpm,
                     heart_rate_confidence |-> hr.confidence,
                     rr_intervals |-> o.rr_intervals,
                     sdnn |-> hrv.sdnn,
                     pnn50 |-> hrv.pnn50,
                     stress_level |-> EstimateStressLevel(hrv.sdnn, hrv.pnn50),
                     bp_systolic |-> bp.sbp,
                     bp_diastolic |-> bp.dbp,
                     spo2 |-> spo2]] : spo2 \in ExperimentalSpo2Estimate(sd)}
          : o \in rrs}

\* estimate raises.
EstimateFail ==
    /\ pc = "estimate"
    /\ stages' = Append(stages, "estimate")
    /\ \E o \in Estimate(filtered_signal, signal_data) :
         /\ o.error # "none"
         /\ Raise(o.error)
    /\ UNCHANGED <<inputVars, callback_calls, extractVars, resultVars, callVars, appVars>>

\* estimate returns a VitalsEstimate.
EstimateReturn ==
    /\ pc = "estimate"
    /\ stages' = Append(stages, "estimate")
    /\ \E o \in Estimate(filtered_signal, signal_data) :
         /\ o.error = "none"
         /\ vitals' = o.vitals
    /\ pc' = "assess"
    /\ UNCHANGED <<inputVars, callback_calls, extractVars, signal_data, filtered_signal, risk, error, closed, callVars, appVars>>

\* ------------------------------------------------------------ RiskAssessor
RootLt(r, c) == QLt(r.sq, QInt(c * c))

\* The points and the alert of each rule of assess, in the order of the code.
HeartRateRule(bpm) ==
    IF bpm = None THEN [score |-> 0, alerts |-> <<>>]
    ELSE IF QGt(bpm, QInt(180))
    THEN [score |-> 4, alerts |-> <<"Very high heart rate (severe tachycardia)">>]
    ELSE IF QGt(bpm, QInt(140))
    THEN [score |-> 3, alerts |-> <<"High heart rate (tachycardia)">>]
    ELSE IF QGt(bpm, QInt(120))
    THEN [score |-> 2, alerts |-> <<"Elevated heart rate">>]
    ELSE IF QLt(bpm, QInt(35))
    THEN [score |-> 4, alerts |-> <<"Very low heart rate (severe bradycardia)">>]
    ELSE IF QLt(bpm, QInt(50))
    THEN [score |-> 2, alerts |-> <<"Low heart rate (bradycardia)">>]
    ELSE [score |-> 0, alerts |-> <<>>]

SdnnRule(sdnn) ==
    IF IsNaN(sdnn.sq) THEN [score |-> 0, alerts |-> <<>>]
    ELSE IF RootLt(sdnn, 10)
    THEN [score |-> 3, alerts |-> <<"Extremely low HRV (very high risk)">>]
    ELSE IF RootLt(sdnn, 20)
    THEN [score |-> 2, alerts |-> <<"Low HRV (autonomic stress)">>]
    ELSE IF RootLt(sdnn, 30)
    THEN [score |-> 1, alerts |-> <<>>]
    ELSE [score |-> 0, alerts |-> <<>>]

BpRule(sbp, dbp) ==
    IF sbp = None \/ dbp = None THEN [score |-> 0, alerts |-> <<>>]
    ELSE
      LET low == IF QLt(sbp, QInt(90)) \/ QLt(dbp, QInt(60))
                 THEN [score |-> 2, alerts |-> <<"Estimated BP low (hypotension)">>]
                 ELSE [score |-> 0, alerts |-> <<>>]
          high == IF QGt(sbp, QInt(180)) \/ QGt(dbp, QInt(110))
                  THEN [score |-> 4,
                        alerts |-> <<"Estimated BP very high (hypertensive crisis)">>]
                  ELSE IF QGt(sbp, QInt(160)) \/ QGt(dbp, QInt(100))
                  THEN [score |-> 2, alerts |-> <<"Estimated BP high (hypertension)">>]
                  ELSE [score |-> 0, alerts |-> <<>>]
      IN  [score |-> low.score + high.score, alerts |-> low.alerts \o high.alerts]

\* The SpO2 rule with the points of its two branches exchanged.
Spo2RuleSwapped(spo2) ==
    IF spo2 = None THEN [score |-> 0, alerts |-> <<>>]
    ELSE IF QLt(spo2, QInt(90))
    THEN [score |-> 2, alerts |-> <<"Low SpO2 (hypoxemia)">>]
    ELSE IF QLt(spo2, QInt(95))
    THEN [score |-> 4, alerts |-> <<"Borderline SpO2">>]
    ELSE [score |-> 0, alerts |-> <<>>]

Spo2Rule(spo2) ==
    IF spo2 = None THEN [score |-> 0, alerts |-> <<>>]
    ELSE IF QLt(spo2, QInt(90))
    THEN [score |-> 4, alerts |-> <<"Low SpO2 (hypoxemia)">>]
    ELSE IF QLt(spo2, QInt(95))
    THEN [score |-> 2, alerts |-> <<"Borderline SpO2">>]
    ELSE [score |-> 0, alerts |-> <<>>]

StressRule(stress) ==
    IF stress # None /\ QGt(stress, QInt(8))
    THEN [score |-> 1, alerts |-> <<"High stress level (low HRV)">>]
    ELSE [score |-> 0, alerts |-> <<>>]

RiskLevel(score) ==
    IF score >= 7 THEN "HIGH" ELSE IF score >= 3 THEN "MODERATE" ELSE "LOW"

\* assess
Assess(v) ==
    LET hr == HeartRateRule(v.heart_rate_bpm)
        hrv == SdnnRule(v.sdnn)
        bp == BpRule(v.bp_systolic, v.bp_diastolic)
        ox == Spo2Rule(v.spo2)
        st == StressRule(v.stress_level)
        score == hr.score + hrv.score + bp.score + ox.score + st.score
    IN  [risk_score |-> score,
         risk_level |-> RiskLevel(score),
         alerts |-> hr.alerts \o hrv.alerts \o bp.alerts \o ox.alerts \o st.alerts]

\* assess returns, and estimate_vitals_from_video returns through finally.
AssessReturn ==
    /\ pc = "assess"
    /\ stages' = Append(stages, "assess")
    /\ risk' = Assess(vitals)
    /\ pc' = "done"
    /\ closed' = closed + 1
    /\ UNCHANGED <<inputVars, callback_calls, extractVars, signal_data, filtered_signal, vitals, error, callVars, appVars>>

\* ------------------------------------------------------------ specification
Init ==
    /\ video \in Videos
    /\ progress_callback \in Callbacks
    /\ callback_calls = <<>>
    /\ pc = "init"
    /\ fps = None
    /\ total_frames = None
    /\ greens = <<>>
    /\ reds = <<>>
    /\ detected_frames = 0
    /\ frame_idx = 0
    /\ signal_data = None
    /\ filtered_signal = None
    /\ vitals = None
    /\ risk = None
    /\ error = "none"
    /\ stages = <<>>
    /\ closed = 0
    /\ fn = "none"
    /\ arg = None
    /\ ret = None
    /\ ServiceStart
    /\ RecorderStart

Next ==
    \/ Construct
    \/ ExtractOpenFail
    \/ ExtractOpen
    \/ ExtractFrame
    \/ ExtractFrameCallbackRaises
    \/ ExtractLowDetection
    \/ ExtractReturn
    \/ ProcessDetrendNonFinite
    \/ ProcessDegenerate
    \/ ProcessBandInvalid
    \/ ProcessFiltfiltFail
    \/ ProcessReturn
    \/ EstimateFail
    \/ EstimateReturn
    \/ AssessReturn

Spec == Init /\ [][Next]_vars

\* ------------------------------------------ a second call on the same clip
\* estimate_vitals_from_video is called again on the same clip once the first
\* call has ended.  Its locals are unbound again and it builds a new detector;
\* the locals of the earlier extract call are left as they were, for extract
\* to initialise.  ret keeps what the first call produced and fn marks the
\* second call.
MaxRepeatFrames == 3

InitTwice ==
    /\ Init
    /\ Len(video.frames) <= MaxRepeatFrames

CallAgain ==
    /\ pc \in {"done", "failed"}
    /\ fn = "none"
    /\ fn' = "second"
    /\ ret' = [signal_data |-> signal_data, filtered_signal |-> filtered_signal,
               vitals |-> vitals, risk |-> risk, error |-> error,
               callback_calls |-> callback_calls]
    /\ pc' = "init"
    /\ signal_data' = None
    /\ filtered_signal' = None
    /\ vitals' = None
    /\ risk' = None
    /\ error' = "none"
    /\ stages' = <<>>
    /\ closed' = 0
    /\ callback_calls' = <<>>
    /\ UNCHANGED <<inputVars, extractVars, arg, appVars>>

\* detrend, filtfilt, welch, find_peaks and np.std are functions of their
\* arguments: given the same SignalData as in the first call they raise or
\* return as they did then, and return the same values.
LibraryErrors == {"DetrendNonFinite", "FilteringFailed: filtfilt", "FindPeaksDistance"}

LibraryDeterministic ==
    (fn = "second" /\ signal_data # None /\ signal_data = ret.signal_data) =>
        /\ filtered_signal # None =>
              /\ ret.filtered_signal # None
              /\ filtered_signal.psd = ret.filtered_signal.psd
        /\ (pc = "failed" /\ (error \in LibraryErrors \/ ret.error \in LibraryErrors))
              => error = ret.error
        /\ vitals # None =>
              /\ ret.vitals # None
              /\ vitals.rr_intervals = ret.vitals.rr_intervals
              /\ vitals.spo2 = ret.vitals.spo2

\* The caller's callback is a function of its arguments as well: in the second
\* call it raises at the frame where it raised in the first, and nowhere else.
CallbackDeterministic ==
    fn = "second" =>
        /\ error = "CallbackRaised" =>
              (ret.error = "CallbackRaised" /\ callback_calls = ret.callback_calls)
        /\ ret.error = "CallbackRaised" =>
              \/ Len(callback_calls) < Len(ret.callback_calls)
              \/ (callback_calls = ret.callback_calls /\ error = "CallbackRaised")

NextTwice ==
    \/ Next /\ LibraryDeterministic' /\ CallbackDeterministic'
    \/ CallAgain

SpecTwice == InitTwice /\ [][NextTwice]_vars

\* ------------------------------------------------- direct calls (static methods)
\* The estimator and assessor methods are static and are also called on their
\* own.  A direct call leaves the pipeline idle: fn names the method, arg
\* holds its argument and ret its return value.
MaxIntervals == 4

PipelineIdle ==
    /\ video = None
    /\ progress_callback = None
    /\ callback_calls = <<>>
    /\ pc = "idle"
    /\ fps = None
    /\ total_frames = None
    /\ greens = <<>>
    /\ reds = <<>>
    /\ detected_frames = 0
    /\ frame_idx = 0
    /\ signal_data = None
    /\ filtered_signal = None
    /\ vitals = None
    /\ risk = None
    /\ error = "none"
    /\ stages = <<>>
    /\ closed = 0

\* rr_intervals arguments: finite beat intervals in milliseconds, with
\* successive differences below, at and above the 50 ms pNN50 threshold.
RrValues == {QInt(780), QInt(800), QInt(810), QInt(820), QInt(850), QInt(900)}
RrArrays == UNION {[1..n -> RrValues] : n \in 0..MaxIntervals}

InitHrv ==
    /\ PipelineIdle
    /\ ServiceStart
    /\ RecorderStart
    /\ fn = "none"
    /\ arg \in RrArrays
    /\ ret = None

CallComputeHrvMetrics ==
    /\ fn = "none"
    /\ fn' = "compute_hrv_metrics"
    /\ ret' = ComputeHrvMetrics(arg)
    /\ UNCHANGED <<pipelineVars, arg, appVars>>

NextHrv == CallComputeHrvMetrics

SpecHrv == InitHrv /\ [][NextHrv]_vars

\* estimate_rr_intervals called directly on a filtered signal of up to
\* MaxSignalLen samples, at two low frame rates and at a usual one.
MaxSignalLen == 12

RrRates == {QInt(3), QInt(4), QInt(25)}

RrArguments ==
    {[filtered_signal |-> [signal_len |-> n, signal_nan |-> FALSE], fps |-> f] :
        n \in 1..MaxSignalLen, f \in RrRates}

InitRr ==
    /\ PipelineIdle
    /\ ServiceStart
    /\ RecorderStart
    /\ fn = "none"
    /\ arg \in RrArguments
    /\ ret = None

CallEstimateRrIntervals ==
    /\ fn = "none"
    /\ fn' = "estimate_rr_intervals"
    /\ ret' \in EstimateRrIntervals(arg.filtered_signal, arg.fps)
    /\ UNCHANGED <<pipelineVars, arg, appVars>>

NextRr == CallEstimateRrIntervals

SpecRr == InitRr /\ [][NextRr]_vars

\* experimental_bp_estimate called directly: heart rates from 20 to 230 BPM in
\* steps of 5, values just below its two thresholds, and NaN.
BpHeartRates == {QInt(5 * k) : k \in 4..46} \cup {NaN, Q(119, 2), Q(159, 2)}
BpSdnns == {Root(NaN), Root(QInt(100)), Root(QInt(2500))}

InitBp ==
    /\ PipelineIdle
    /\ ServiceStart
    /\ RecorderStart
    /\ fn = "none"
    /\ arg \in [bpm : BpHeartRates, sdnn : BpSdnns]
    /\ ret = None

CallExperimentalBpEstimate ==
    /\ fn = "none"
    /\ fn' = "experimental_bp_estimate"
    /\ ret' = ExperimentalBpEstimate(arg.bpm, arg.sdnn)
    /\ UNCHANGED <<pipelineVars, arg, appVars>>

NextBp == CallExperimentalBpEstimate

SpecBp == InitBp /\ [][NextBp]_vars

\* estimate_stress_level called directly, and called again on other HRV
\* values: SDNN from 5 to 200 ms, pNN50 on both sides of each threshold, and
\* NaN for either.
StressSdnns ==
    {Root(NaN)} \cup {Root(QInt(x * x)) : x \in {5, 20, 30, 50, 80, 120, 200}}
StressPnn50s ==
    {NaN, QInt(0), QInt(4), QInt(5), QInt(14), QInt(15), QInt(30), QInt(60)}
StressArguments == [sdnn : StressSdnns, pnn50 : StressPnn50s]

InitStress ==
    /\ PipelineIdle
    /\ ServiceStart
    /\ RecorderStart
    /\ fn = "none"
    /\ arg \in StressArguments
    /\ ret = None

CallEstimateStressLevel ==
    /\ fn = "none"
    /\ fn' = "estimate_stress_level"
    /\ ret' = EstimateStressLevel(arg.sdnn, arg.pnn50)
    /\ UNCHANGED <<pipelineVars, arg, appVars>>

CallEstimateStressLevelAgain ==
    /\ fn = "estimate_stress_level"
    /\ arg' \in StressArguments \ {arg}
    /\ ret' = EstimateStressLevel(arg'.sdnn, arg'.pnn50)
    /\ UNCHANGED <<pipelineVars, fn, appVars>>

NextStress == CallEstimateStressLevel \/ CallEstimateStressLevelAgain

SpecStress == InitStress /\ [][NextStress]_vars

\* The spectral part of process followed by estimate_heart_rate, on the
\* filtered signal of a clip whose green channel is a clean tone inside the
\* pass band: seconds * fps samples at fps, tone in centihertz.  welch puts the
\* power of a clean tone in the grid bin nearest to it (either of the two when
\* it lies midway), and nothing to speak of elsewhere.
ToneRates ==
    {QInt(10), QInt(24), QInt(25), QInt(30), QInt(48), QInt(60), QInt(90), QInt(120)}
ToneSeconds == {5, 10, 20}
ToneFrequencies == {QInt(80), QInt(100), QInt(120), QInt(150), QInt(200), QInt(250)}
ToneArguments == [fps : ToneRates, seconds : ToneSeconds, tone : ToneFrequencies]

NearestBins(freqs, tone) ==
    {k \in 1..Len(freqs) :
        \A j \in 1..Len(freqs) :
            QLe(QAbs(QSub(freqs[k], tone)), QAbs(QSub(freqs[j], tone)))}

TonePsds(freqs, tone) ==
    {[k \in 1..Len(freqs) |-> IF k = p THEN QInt(1) ELSE QInt(0)] :
        p \in NearestBins(freqs, tone)}

ToneFilteredSignals(a) ==
    LET n == QFloor(QMul(QInt(a.seconds), a.fps))
        freqs == WelchFreqs(a.fps, Nperseg(n))
    IN  {[signal_len |-> n, signal_nan |-> FALSE, sampling_rate |-> a.fps,
          psd |-> psd, psd_freqs |-> freqs, snr |-> Snr(psd, freqs)] :
            psd \in TonePsds(freqs, a.tone)}

InitTone ==
    /\ PipelineIdle
    /\ ServiceStart
    /\ RecorderStart
    /\ fn = "none"
    /\ arg \in ToneArguments
    /\ ret = None

CallEstimateHeartRate ==
    /\ fn = "none"
    /\ fn' = "estimate_heart_rate"
    /\ \E fs \in ToneFilteredSignals(arg) : ret' = EstimateHeartRate(fs)
    /\ UNCHANGED <<pipelineVars, arg, appVars>>

NextTone == CallEstimateHeartRate

SpecTone == InitTone /\ [][NextTone]_vars

\* RiskAssessor.assess called directly, and called again on vitals that differ
\* from the previous ones in one field.
RiskHeartRates == {QInt(30), QInt(40), QInt(80), QInt(130), QInt(150), QInt(190)}
RiskSdnns == {Root(NaN), Root(QInt(25)), Root(QInt(225)), Root(QInt(625)), Root(QInt(1225))}
RiskSystolics == {QInt(85), QInt(120), QInt(170), QInt(190)}
RiskDiastolics == {QInt(50), QInt(80), QInt(105), QInt(115)}
RiskSpo2s == {None, QInt(85), QInt(92), QInt(97)}
RiskStressLevels == {NaN, Q(11, 2), QInt(9)}

VitalsInputs ==
    [heart_rate_bpm : RiskHeartRates, sdnn : RiskSdnns,
     bp_systolic : RiskSystolics, bp_diastolic : RiskDiastolics,
     spo2 : RiskSpo2s, stress_level : RiskStressLevels]

VitalsFieldValues ==
    [heart_rate_bpm |-> RiskHeartRates, sdnn |-> RiskSdnns,
     bp_systolic |-> RiskSystolics, bp_diastolic |-> RiskDiastolics,
     spo2 |-> RiskSpo2s, stress_level |-> RiskStressLevels]

VitalsFields == DOMAIN VitalsFieldValues

InitRisk ==
    /\ PipelineIdle
    /\ ServiceStart
    /\ RecorderStart
    /\ fn = "none"
    /\ arg \in VitalsInputs
    /\ ret = None

CallAssess ==
    /\ fn = "none"
    /\ fn' = "assess"
    /\ ret' = Assess(arg)
    /\ UNCHANGED <<pipelineVars, arg, appVars>>

CallAssessAgain ==
    /\ fn = "assess"
    /\ \E f \in VitalsFields :
          \E x \in VitalsFieldValues[f] \ {arg[f]} :
             /\ arg' = [arg EXCEPT ![f] = x]
             /\ ret' = Assess(arg')
    /\ UNCHANGED <<pipelineVars, fn, appVars>>

NextRisk == CallAssess \/ CallAssessAgain

SpecRisk == InitRisk /\ [][NextRisk]_vars

\* VitalsEstimator.estimate followed by RiskAssessor.assess, as
\* estimate_vitals_from_video chains them, on the signals of a clip with a
\* face in every frame: the raw series of the scene and any spectrum welch can
\* give for its length and rate.
EstimateRates == {QInt(5), QInt(6)}
EstimateLengths == {8, 9}

EstimateArguments ==
    UNION {{[signal_data |->
                MakeSignalData([i \in 1..n |-> GreenAt(sc, i)],
                               [i \in 1..n |-> RedAt(sc, i)], f, n, n),
             filtered_signal |->
                [signal_len |-> n, signal_nan |-> FALSE, sampling_rate |-> f,
                 psd |-> psd, psd_freqs |-> WelchFreqs(f, Nperseg(n)),
                 snr |-> Snr(psd, WelchFreqs(f, Nperseg(n)))]] :
            psd \in PsdChoices(Len(WelchFreqs(f, Nperseg(n))), FALSE)} :
        n \in EstimateLengths, f \in EstimateRates, sc \in {"pulse", "greenOnly"}}

InitEstimate ==
    /\ PipelineIdle
    /\ ServiceStart
    /\ RecorderStart
    /\ fn = "none"
    /\ arg \in EstimateArguments
    /\ ret = None

CallEstimate ==
    /\ fn = "none"
    /\ fn' = "estimate"
    /\ \E e \in Estimate(arg.filtered_signal, arg.signal_data) :
        ret' = IF e.error = "none"
               THEN [error |-> "none", vitals |-> e.vitals, risk |-> Assess(e.vitals)]
               ELSE [error |-> e.error, vitals |-> None, risk |-> None]
    /\ UNCHANGED <<pipelineVars, arg, appVars>>

NextEstimate == CallEstimate

SpecEstimate == InitEstimate /\ [][NextEstimate]_vars

\* FaceDetector.detect called on one frame.  The frame is img_w by img_h
\* pixels; mediapipe is the face box spanned by the landmarks FaceMesh found
\* (None without landmarks or without MediaPipe; landmarks may lie outside the
\* image), haar the faces detectMultiScale returns, each inside the image and
\* at least 80 pixels a side.
IntTrunc(a) == IF a.num >= 0 THEN a.num \div a.den ELSE -((-a.num) \div a.den)

Box(x, y, w, h) == [x |-> x, y |-> y, w |-> w, h |-> h]

MediapipeFaces ==
    {Box(x, y, w, h) : x \in {-10, 0, 50, 90}, y \in {0, 50, 90},
                       w \in {0, 7, 20, 100}, h \in {17, 20, 100}}

HaarFaces ==
    {<<>>, <<Box(0, 0, 80, 80)>>, <<Box(10, 10, 90, 90)>>,
     <<Box(0, 0, 80, 80), Box(10, 10, 90, 90)>>}

DetectArguments ==
    [img_w : {100}, img_h : {100},
     mediapipe : MediapipeFaces \cup {None}, haar : HaarFaces]

\* ROIBbox.is_valid
IsValid(roi, img_h, img_w) ==
    /\ roi.x >= 0 /\ roi.y >= 0
    /\ roi.w > 2 /\ roi.h > 2
    /\ roi.x + roi.w <= img_w
    /\ roi.y + roi.h <= img_h

\* get_forehead_roi: int() of x + 0.3 w, y + 0.08 h, 0.4 w, 0.18 h.
GetForeheadRoi(face) ==
    Box(IntTrunc(QAdd(QInt(face.x), QMul(QInt(face.w), Q(3, 10)))),
        IntTrunc(QAdd(QInt(face.y), QMul(QInt(face.h), Q(8, 100)))),
        IntTrunc(QMul(QInt(face.w), Q(4, 10))),
        IntTrunc(QMul(QInt(face.h), Q(18, 100))))

\* max(faces, key=lambda r: r[2] * r[3]): the first face of largest area.
LargestFace(faces) ==
    faces[CHOOSE j \in 1..Len(faces) :
            /\ \A i \in 1..Len(faces) : faces[i].w * faces[i].h <= faces[j].w * faces[j].h
            /\ \A i \in 1..(j - 1) : faces[i].w * faces[i].h < faces[j].w * faces[j].h]

\* detect: the MediaPipe box when valid, else the Haar box when valid, else None.
Detect(a) ==
    LET mp_roi == GetForeheadRoi(a.mediapipe)
        haar_roi == GetForeheadRoi(LargestFace(a.haar))
    IN  IF a.mediapipe # None /\ IsValid(mp_roi, a.img_h, a.img_w) THEN mp_roi
        ELSE IF Len(a.haar) > 0 /\ IsValid(haar_roi, a.img_h, a.img_w) THEN haar_roi
        ELSE None

InitDetect ==
    /\ PipelineIdle
    /\ ServiceStart
    /\ RecorderStart
    /\ fn = "none"
    /\ arg \in DetectArguments
    /\ ret = None

CallDetect ==
    /\ fn = "none"
    /\ fn' = "detect"
    /\ ret' = Detect(arg)
    /\ UNCHANGED <<pipelineVars, arg, appVars>>

NextDetect == CallDetect

SpecDetect == InitDetect /\ [][NextDetect]_vars

\* ------------------------------------------------- API server: the routes
\* rppg_fastapi.py serves /analyze, /results/{request_id} and
\* /cache/{request_id} on one event loop: a handler runs alone from one await
\* to the next, so each action below is one such stretch.  The analysis
\* itself runs in a worker thread (asyncio.to_thread) and comes back with a
\* result, a ValueError or another exception, as the pipeline above does.
\* Request ids stand for the microsecond stamps of generate_request_id.

\* The finally clause with the two calls in the other order: os.rmdir
\* raises on the directory that still holds the clip, and the clause ends there.
FinallyRmdirFirst(r, files, dirs) ==
    [files |-> files, dirs |-> IF r \in files THEN dirs ELSE dirs \ {r}]

\* The finally clause of analyze_video: os.remove(tmp_path), os.rmdir(tmp_dir),
\* any exception swallowed.  os.remove raises when the file was never
\* created, and the directory then stays.
Finally(r, files, dirs) ==
    IF r \in files
    THEN [files |-> files \ {r}, dirs |-> dirs \ {r}]
    ELSE [files |-> files, dirs |-> dirs]

Finish(r, how) ==
    /\ analyze_pc' = [analyze_pc EXCEPT ![r] = "done"]
    /\ outcome' = [outcome EXCEPT ![r] = how]

\* analyze_video up to `await file.read()`: the filename and extension tests.
AnalyzeStart(r) ==
    /\ analyze_pc[r] = "idle"
    /\ \E valid \in BOOLEAN :
        IF valid
        THEN analyze_pc' = [analyze_pc EXCEPT ![r] = "read"] /\ outcome' = outcome
        ELSE Finish(r, "400 invalid file")
    /\ UNCHANGED <<now, VIDEO_CACHE, tmp_files, tmp_dirs, background_tasks, served>>
    /\ UNCHANGED <<pipelineVars, callVars, recorderVars>>

\* From the end of file.read() to the first await of the save: the size test
\* and tempfile.mkdtemp().
AnalyzeRead(r) ==
    /\ analyze_pc[r] = "read"
    /\ \E small \in BOOLEAN :
        IF small
        THEN /\ analyze_pc' = [analyze_pc EXCEPT ![r] = "save"]
             /\ outcome' = outcome
             /\ tmp_dirs' = tmp_dirs \cup {r}
        ELSE Finish(r, "413 too large") /\ tmp_dirs' = tmp_dirs
    /\ UNCHANGED <<now, VIDEO_CACHE, tmp_files, background_tasks, served>>
    /\ UNCHANGED <<pipelineVars, callVars, recorderVars>>

\* The save: aiofiles.open and f.write.  Either may raise (the file exists
\* once open has succeeded), and the request may be cancelled at either await;
\* the except and finally clauses then run without a further await.
AnalyzeSave(r) ==
    /\ analyze_pc[r] = "save"
    /\ \E saved \in BOOLEAN :
        IF saved
        THEN /\ analyze_pc' = [analyze_pc EXCEPT ![r] = "analysis"]
             /\ outcome' = outcome
             /\ tmp_files' = tmp_files \cup {r}
             /\ tmp_dirs' = tmp_dirs
        ELSE \E created \in BOOLEAN, how \in {"500 processing failed", "cancelled"} :
                LET files == IF created THEN tmp_files \cup {r} ELSE tmp_files
                    after == Finally(r, files, tmp_dirs)
                IN  /\ Finish(r, how)
                    /\ tmp_files' = after.files
                    /\ tmp_dirs' = after.dirs
    /\ UNCHANGED <<now, VIDEO_CACHE, background_tasks, served>>
    /\ UNCHANGED <<pipelineVars, callVars, recorderVars>>

\* VIDEO_CACHE[request_id] = {'timestamp': response.timestamp, ...}
CacheResult(cache, r, t) ==
    [id \in DOMAIN cache \cup {r} |-> IF id = r THEN [timestamp |-> t] ELSE cache[id]]

\* From the end of asyncio.to_thread(estimate_vitals_from_video, ...) to the
\* end of the handler: the response is built and cached and cleanup_cache is
\* queued, or an except clause answers 400 or 500; then the finally clause.
AnalyzeReturn(r) ==
    /\ analyze_pc[r] = "analysis"
    /\ \E how \in {"200", "400 video processing error", "500 processing failed", "cancelled"} :
        /\ Finish(r, how)
        /\ IF how = "200"
           THEN /\ VIDEO_CACHE' = CacheResult(VIDEO_CACHE, r, now)
                /\ background_tasks' = background_tasks \cup {r}
           ELSE UNCHANGED <<VIDEO_CACHE, background_tasks>>
    /\ LET after == Finally(r, tmp_files, tmp_dirs)
       IN  tmp_files' = after.files /\ tmp_dirs' = after.dirs
    /\ UNCHANGED <<now, served>>
    /\ UNCHANGED <<pipelineVars, callVars, recorderVars>>

\* cleanup_cache: the entries with timestamp + CACHE_TTL < now go, then the
\* most recent MAX_CACHE_SIZE stay.
Expired(cache, t) == {id \in DOMAIN cache : cache[id].timestamp + CACHE_TTL < t}

MostRecent(cache) ==
    IF Cardinality(DOMAIN cache) > MAX_CACHE_SIZE
    THEN {S \in SUBSET (DOMAIN cache) :
            /\ Cardinality(S) = MAX_CACHE_SIZE
            /\ \A a \in S, b \in (DOMAIN cache) \ S :
                    cache[a].timestamp >= cache[b].timestamp}
    ELSE {DOMAIN cache}

CleanupCache(r) ==
    /\ r \in background_tasks
    /\ background_tasks' = background_tasks \ {r}
    /\ LET fresh == [id \in (DOMAIN VIDEO_CACHE) \ Expired(VIDEO_CACHE, now) |-> VIDEO_CACHE[id]]
       IN  \E S \in MostRecent(fresh) : VIDEO_CACHE' = [id \in S |-> fresh[id]]
    /\ UNCHANGED <<now, analyze_pc, outcome, tmp_files, tmp_dirs, served>>
    /\ UNCHANGED <<pipelineVars, callVars, recorderVars>>

\* get_result: GET /results/{request_id}, 404 for an id not in the cache.
GetResult(id) ==
    /\ served' = IF id \in DOMAIN VIDEO_CACHE
                 THEN [request_id |-> id,
                       timestamp |-> VIDEO_CACHE[id].timestamp, at |-> now]
                 ELSE None
    /\ UNCHANGED <<now, VIDEO_CACHE, analyze_pc, outcome, tmp_files, tmp_dirs, background_tasks>>
    /\ UNCHANGED <<pipelineVars, callVars, recorderVars>>

\* delete_cached_result: DELETE /cache/{request_id}.
DeleteCachedResult(id) ==
    /\ id \in DOMAIN VIDEO_CACHE
    /\ VIDEO_CACHE' = [k \in (DOMAIN VIDEO_CACHE) \ {id} |-> VIDEO_CACHE[k]]
    /\ UNCHANGED <<now, analyze_pc, outcome, tmp_files, tmp_dirs, background_tasks, served>>
    /\ UNCHANGED <<pipelineVars, callVars, recorderVars>>

\* Time passes, half a CACHE_TTL at a time.
Tick ==
    /\ now < MaxTicks * (CACHE_TTL \div 2)
    /\ now' = now + (CACHE_TTL \div 2)
    /\ UNCHANGED <<VIDEO_CACHE, analyze_pc, outcome, tmp_files, tmp_dirs, background_tasks, served>>
    /\ UNCHANGED <<pipelineVars, callVars, recorderVars>>

InitApi ==
    /\ PipelineIdle
    /\ fn = "none"
    /\ arg = None
    /\ ret = None
    /\ ServiceStart
    /\ RecorderStart

NextApi ==
    \/ \E r \in Requests : AnalyzeStart(r)
    \/ \E r \in Requests : AnalyzeRead(r)
    \/ \E r \in Requests : AnalyzeSave(r)
    \/ \E r \in Requests : AnalyzeReturn(r)
    \/ \E r \in Requests : CleanupCache(r)
    \/ \E id \in Requests : GetResult(id)
    \/ \E id \in Requests : DeleteCachedResult(id)
    \/ Tick

SpecApi == InitApi /\ [][NextApi]_vars

\* ------------------------------------------------ live camera: recorder
\* FaceGuidanceProcessor.recv runs once per frame on the WebRTC worker thread
\* and changes SharedState inside `with self.lock`; live_camera_interface
\* polls the same fields from the Streamlit thread without the lock.  The two
\* places where recv writes several fields that the poller tells apart, the
\* start and the end of the recording, are one step per assignment; the
\* alignment bookkeeping of a frame is one step.  aligned is what the face
\* test of the frame found.

\* The unbroken run of aligned frames, as of a frame seen at time t.
AlignedSince(aligned, t) ==
    IF aligned THEN (IF aligned_since = 0 THEN t ELSE aligned_since) ELSE 0

\* The first branch with the countdown left running when alignment is lost.
RecvAlignKeepingCountdown(aligned) ==
    /\ recv_pc = "idle"
    /\ ~recording_active /\ ~process_complete
    /\ LET t == clock
           stable == IF ~aligned THEN 0
                     ELSE IF alignment_stable_start = 0 THEN t
                     ELSE alignment_stable_start
           begins == /\ aligned
                     /\ alignment_stable_start # 0
                     /\ t - alignment_stable_start >= STABLE_SECONDS
                     /\ ~countdown_active
           counting == countdown_active \/ begins
           cstart == IF begins THEN t ELSE countdown_start
       IN  /\ recv_now' = t
           /\ alignment_stable_start' = stable
           /\ countdown_active' = counting
           /\ countdown_start' = cstart
           /\ aligned_since' = AlignedSince(aligned, t)
           /\ IF counting /\ t - cstart < COUNTDOWN_SECONDS
              THEN guidance' = "Starting in ..." /\ recv_pc' = "idle"
              ELSE /\ guidance' = IF aligned THEN "Perfect! Hold still" ELSE "Align your face"
                   /\ recv_pc' = IF counting THEN "start_writer" ELSE "idle"
    /\ UNCHANGED <<clock, recording_active, recording_start_time, process_complete,
                   video_writer, output_path, ui_result>>
    /\ UNCHANGED <<pipelineVars, callVars, serviceVars>>

\* recv while neither recording nor complete: the alignment timer, the
\* countdown, and the decision to start recording.
RecvAlign(aligned) ==
    /\ recv_pc = "idle"
    /\ ~recording_active /\ ~process_complete
    /\ LET t == clock
           stable == IF ~aligned THEN 0
                     ELSE IF alignment_stable_start = 0 THEN t
                     ELSE alignment_stable_start
           begins == /\ aligned
                     /\ alignment_stable_start # 0
                     /\ t - alignment_stable_start >= STABLE_SECONDS
                     /\ ~countdown_active
           counting == aligned /\ (countdown_active \/ begins)
           cstart == IF begins THEN t ELSE countdown_start
       IN  /\ recv_now' = t
           /\ alignment_stable_start' = stable
           /\ countdown_active' = counting
           /\ countdown_start' = cstart
           /\ aligned_since' = AlignedSince(aligned, t)
           /\ IF counting /\ t - cstart < COUNTDOWN_SECONDS
              THEN guidance' = "Starting in ..." /\ recv_pc' = "idle"
              ELSE /\ guidance' = IF aligned THEN "Perfect! Hold still" ELSE "Align your face"
                   /\ recv_pc' = IF counting THEN "start_writer" ELSE "idle"
    /\ UNCHANGED <<clock, recording_active, recording_start_time, process_complete,
                   video_writer, output_path, ui_result>>
    /\ UNCHANGED <<pipelineVars, callVars, serviceVars>>

\* self.shared_state.video_writer = writer
RecvStartWriter ==
    /\ recv_pc = "start_writer"
    /\ video_writer' = "open"
    /\ recv_pc' = "start_path"
    /\ UNCHANGED <<clock, recording_active, recording_start_time, process_complete,
                   countdown_active, countdown_start, alignment_stable_start,
                   output_path, recv_now, guidance, aligned_since, ui_result>>
    /\ UNCHANGED <<pipelineVars, callVars, serviceVars>>

\* self.shared_state.output_path = output_path
RecvStartPath ==
    /\ recv_pc = "start_path"
    /\ output_path' = "recording.mp4"
    /\ recv_pc' = "start_active"
    /\ UNCHANGED <<clock, recording_active, recording_start_time, process_complete,
                   countdown_active, countdown_start, alignment_stable_start,
                   video_writer, recv_now, guidance, aligned_since, ui_result>>
    /\ UNCHANGED <<pipelineVars, callVars, serviceVars>>

\* self.shared_state.recording_active = True
RecvStartActive ==
    /\ recv_pc = "start_active"
    /\ recording_active' = TRUE
    /\ recv_pc' = "start_time"
    /\ UNCHANGED <<clock, recording_start_time, process_complete,
                   countdown_active, countdown_start, alignment_stable_start,
                   video_writer, output_path, recv_now, guidance, aligned_since, ui_result>>
    /\ UNCHANGED <<pipelineVars, callVars, serviceVars>>

\* recording_start_time = now; countdown_active = False; the lock is released.
RecvStartTime ==
    /\ recv_pc = "start_time"
    /\ recording_start_time' = recv_now
    /\ countdown_active' = FALSE
    /\ recv_pc' = "idle"
    /\ UNCHANGED <<clock, recording_active, process_complete,
                   countdown_start, alignment_stable_start,
                   video_writer, output_path, recv_now, guidance, aligned_since, ui_result>>
    /\ UNCHANGED <<pipelineVars, callVars, serviceVars>>

\* recv while recording: the frame is written; after RECORD_SECONDS the
\* recording ends.
RecvWrite(aligned) ==
    /\ recv_pc = "idle"
    /\ recording_active
    /\ recv_now' = clock
    /\ aligned_since' = AlignedSince(aligned, clock)
    /\ guidance' = "Recording..."
    /\ recv_pc' = IF clock - recording_start_time >= RECORD_SECONDS
                  THEN "release" ELSE "idle"
    /\ UNCHANGED <<clock, sharedStateVars, ui_result>>
    /\ UNCHANGED <<pipelineVars, callVars, serviceVars>>

\* self.shared_state.video_writer.release()
RecvRelease ==
    /\ recv_pc = "release"
    /\ video_writer' = "released"
    /\ recv_pc' = "finish_active"
    /\ UNCHANGED <<clock, recording_active, recording_start_time, process_complete,
                   countdown_active, countdown_start, alignment_stable_start,
                   output_path, recv_now, guidance, aligned_since, ui_result>>
    /\ UNCHANGED <<pipelineVars, callVars, serviceVars>>

\* self.shared_state.recording_active = False
RecvFinishActive ==
    /\ recv_pc = "finish_active"
    /\ recording_active' = FALSE
    /\ recv_pc' = "finish_complete"
    /\ UNCHANGED <<clock, recording_start_time, process_complete,
                   countdown_active, countdown_start, alignment_stable_start,
                   video_writer, output_path, recv_now, guidance, aligned_since, ui_result>>
    /\ UNCHANGED <<pipelineVars, callVars, serviceVars>>

\* self.shared_state.process_complete = True; the lock is released.
RecvFinishComplete ==
    /\ recv_pc = "finish_complete"
    /\ process_complete' = TRUE
    /\ guidance' = "Recording Complete!"
    /\ recv_pc' = "idle"
    /\ UNCHANGED <<clock, recording_active, recording_start_time,
                   countdown_active, countdown_start, alignment_stable_start,
                   video_writer, output_path, recv_now, aligned_since, ui_result>>
    /\ UNCHANGED <<pipelineVars, callVars, serviceVars>>

\* recv once the recording is complete.
RecvProcessing(aligned) ==
    /\ recv_pc = "idle"
    /\ ~recording_active /\ process_complete
    /\ recv_now' = clock
    /\ aligned_since' = AlignedSince(aligned, clock)
    /\ guidance' = "Processing..."
    /\ UNCHANGED <<clock, sharedStateVars, recv_pc, ui_result>>
    /\ UNCHANGED <<pipelineVars, callVars, serviceVars>>

\* live_camera_interface: one turn of the polling loop that finds
\* process_complete set and returns output_path.
UiPoll ==
    /\ ui_result = "polling"
    /\ process_complete
    /\ ui_result' = output_path
    /\ UNCHANGED <<clock, sharedStateVars, recv_pc, recv_now, guidance, aligned_since>>
    /\ UNCHANGED <<pipelineVars, callVars, serviceVars>>

\* A second passes.
RecorderTick ==
    /\ clock < MaxRecorderClock
    /\ clock' = clock + 1
    /\ UNCHANGED <<sharedStateVars, recv_pc, recv_now, guidance, aligned_since, ui_result>>
    /\ UNCHANGED <<pipelineVars, callVars, serviceVars>>

InitRecorder ==
    /\ PipelineIdle
    /\ ServiceStart
    /\ RecorderStart
    /\ fn = "none"
    /\ arg = None
    /\ ret = None

NextRecorder ==
    \/ \E aligned \in BOOLEAN : RecvAlign(aligned)
    \/ RecvStartWriter
    \/ RecvStartPath
    \/ RecvStartActive
    \/ RecvStartTime
    \/ \E aligned \in BOOLEAN : RecvWrite(aligned)
    \/ RecvRelease
    \/ RecvFinishActive
    \/ RecvFinishComplete
    \/ \E aligned \in BOOLEAN : RecvProcessing(aligned)
    \/ UiPoll
    \/ RecorderTick

SpecRecorder == InitRecorder /\ [][NextRecorder]_vars

\* ------------------------------------------------------------------ properties
\* C1: whenever the pipeline has produced vitals, the heart rate it reports
\* lies in [MIN_HR, MAX_HR] = [30, 220] BPM.
C1_HeartRateInRange ==
    vitals # None =>
        /\ QGe(vitals.heart_rate_bpm, QInt(MIN_HR))
        /\ QLe(vitals.heart_rate_bpm, QInt(MAX_HR))

C1_Witness ==
    /\ pc = "done"
    /\ risk # None
    /\ vitals.heart_rate_bpm = QInt(150)

\* C2: once the frame scan is over, a clip with a face in fewer than 25% of
\* the frames processed has failed with the low-detection error and has
\* handed no signal to the later stages.
C2_LowRatioAlwaysFails ==
    (/\ pc \notin {"init", "open", "scan"}
     /\ frame_idx > 0
     /\ detected_frames * 100 < frame_idx * MIN_DETECTION_RATIO)
    => (error = "LowDetectionRate" /\ signal_data = None /\ vitals = None)

\* C3: the stages run in the order extract, process, estimate, assess, each
\* at most once; a failure ends the call at once, with no result.
StageOrder == <<"extract", "process", "estimate", "assess">>
IsPrefix(s, t) == Len(s) <= Len(t) /\ \A i \in 1..Len(s) : s[i] = t[i]

C3_LinearPipeline ==
    /\ IsPrefix(stages, StageOrder)
    /\ error # "none" => (pc = "failed" /\ risk = None)
    /\ risk # None => (pc = "done" /\ stages = StageOrder /\ error = "none")
    /\ vitals # None => (filtered_signal # None /\ signal_data # None)
    /\ filtered_signal # None => signal_data # None

C3_Witness ==
    /\ pc = "failed"
    /\ error = "DegenerateSignal"
    /\ stages = <<"extract", "process">>
    /\ vitals = None

\* C4: compute_hrv_metrics returns NaN for both SDNN and pNN50 when it is given
\* fewer than 3 beat intervals, and a number for both when it is given 3 or
\* more.
C4_HrvAvailability ==
    fn = "compute_hrv_metrics" =>
        /\ Len(arg) < 3 => (IsNaN(ret.sdnn.sq) /\ IsNaN(ret.pnn50))
        /\ Len(arg) >= 3 => (~IsNaN(ret.sdnn.sq) /\ ~IsNaN(ret.pnn50))

C4_Witness ==
    /\ fn = "compute_hrv_metrics"
    /\ arg = <<QInt(800), QInt(900), QInt(900)>>
    /\ ret.pnn50 = QInt(50)
    /\ ret.sdnn.sq = Q(20000, 9)

\* C5: a numeric SpO2 is reported only for a clip of at least 5 seconds whose
\* heart rate is in [40, 180] BPM, whose red and green DC terms are strictly
\* positive and whose ratio of ratios R is in [0.4, 1.2]; spo2 is
\* clip(104 - 18 R, 70, 100), so R is in that window exactly when spo2 is in
\* [82.4, 96.8].
C5_Spo2Gated ==
    (vitals # None /\ vitals.spo2 # None) =>
        /\ QGe(QDiv(QInt(frame_idx), signal_data.fps), QInt(5))
        /\ QGe(vitals.heart_rate_bpm, QInt(40))
        /\ QLe(vitals.heart_rate_bpm, QInt(180))
        /\ QGt(Mean(InterpolateNans(signal_data.red)), QInt(0))
        /\ QGt(Mean(InterpolateNans(signal_data.green)), QInt(0))
        /\ QGe(vitals.spo2, Q(412, 5))
        /\ QLe(vitals.spo2, Q(484, 5))

\* C6: once process has run on a series whose gap-filled, detrended form has
\* zero variance, it has failed with the degenerate-signal error and there is
\* no FilteredSignal; a clip whose detected ROI values are all the same never
\* has a heart rate.
C6_DegenerateFails ==
    /\ (/\ signal_data # None
        /\ pc # "process"
        /\ Std(Detrend(InterpolateNans(signal_data.green))).sq = QInt(0))
       => (error = "DegenerateSignal" /\ filtered_signal = None /\ vitals = None)
    /\ (/\ \E i \in 1..Len(video.frames) : video.frames[i].face
        /\ \A i, j \in 1..Len(video.frames) :
              (video.frames[i].face /\ video.frames[j].face)
                  => video.frames[i].green = video.frames[j].green)
       => vitals = None

C6_Witness ==
    /\ pc = "failed"
    /\ error = "DegenerateSignal"
    /\ frame_idx = 5
    /\ detected_frames = 4
    /\ signal_data.green[1] = NaN
    /\ signal_data.green[2] = QInt(2)
    /\ filtered_signal = None

\* C7: when assess is called again on vitals that differ from the previous
\* ones in exactly one field, and that field is more severe (heart rate higher
\* from 50 up or lower from 120 down, SDNN lower, systolic pressure higher
\* from 90 up or lower from 160 down, diastolic pressure higher from 60 up or
\* lower from 100 down, SpO2 lower, stress higher), the risk score is not
\* lower than before.
Changed(v, w, f) ==
    /\ w[f] # v[f]
    /\ \A g \in VitalsFields \ {f} : w[g] = v[g]

Outward(x, y, lo, hi) == (QGe(x, QInt(lo)) /\ QGt(y, x)) \/ (QLe(x, QInt(hi)) /\ QLt(y, x))

MoreSevere(v, w) ==
    \/ Changed(v, w, "heart_rate_bpm") /\ Outward(v.heart_rate_bpm, w.heart_rate_bpm, 50, 120)
    \/ Changed(v, w, "sdnn") /\ QLt(w.sdnn.sq, v.sdnn.sq)
    \/ Changed(v, w, "bp_systolic") /\ Outward(v.bp_systolic, w.bp_systolic, 90, 160)
    \/ Changed(v, w, "bp_diastolic") /\ Outward(v.bp_diastolic, w.bp_diastolic, 60, 100)
    \/ Changed(v, w, "spo2") /\ v.spo2 # None /\ w.spo2 # None /\ QLt(w.spo2, v.spo2)
    \/ Changed(v, w, "stress_level") /\ QGt(w.stress_level, v.stress_level)

C7_RiskMonotone ==
    [][(fn = "assess" /\ fn' = "assess" /\ MoreSevere(arg, arg'))
          => ret'.risk_score >= ret.risk_score]_vars

C7_Witness ==
    /\ fn = "assess"
    /\ arg = [heart_rate_bpm |-> QInt(190), sdnn |-> Root(QInt(25)),
              bp_systolic |-> QInt(190), bp_diastolic |-> QInt(115),
              spo2 |-> QInt(85), stress_level |-> QInt(9)]
    /\ ret.risk_score = 16
    /\ ret.risk_level = "HIGH"

C9_FewIntervalsStillCompletes ==
    /\ (pc = "failed" /\ filtered_signal # None)
          => error \in {"NoValidFrequencyBins", "ImplausibleHeartRate"}
    /\ (vitals # None /\ Len(vitals.rr_intervals) < 3)
          => /\ IsNaN(vitals.sdnn.sq)
             /\ IsNaN(vitals.pnn50)
             /\ IsNaN(vitals.stress_level)
    /\ (risk # None /\ Len(vitals.rr_intervals) < 3)
          => risk.risk_score =
                HeartRateRule(vitals.heart_rate_bpm).score
                + BpRule(vitals.bp_systolic, vitals.bp_diastolic).score
                + Spo2Rule(vitals.spo2).score

\* C10: when the SpO2 estimator fails, estimate still returns: spo2 is None,
\* the heart rate, HRV, stress and pressure fields are what their estimators
\* give, and the risk assessment is made from them; after conditioning the
\* call only ever fails in the heart-rate estimate or in peak detection.
C10_Spo2FailureContained ==
    /\ (vitals # None /\ vitals.spo2 = None) =>
          LET hr == EstimateHeartRate(filtered_signal)
              hrv == ComputeHrvMetrics(vitals.rr_intervals)
              bp == ExperimentalBpEstimate(hr.bpm, hrv.sdnn)
          IN  /\ pc \in {"assess", "done"}
              /\ vitals.heart_rate_bpm = hr.bpm
              /\ vitals.sdnn = hrv.sdnn
              /\ vitals.pnn50 = hrv.pnn50
              /\ vitals.stress_level = EstimateStressLevel(hrv.sdnn, hrv.pnn50)
              /\ vitals.bp_systolic = bp.sbp
              /\ vitals.bp_diastolic = bp.dbp
              /\ pc = "done" => risk = Assess(vitals)
    /\ (pc = "failed" /\ filtered_signal # None) =>
          error \in {"NoValidFrequencyBins", "ImplausibleHeartRate", "FindPeaksDistance"}

C10_Witness ==
    /\ pc = "done"
    /\ vitals.spo2 = None
    /\ vitals.heart_rate_bpm = QInt(60)
    /\ vitals.bp_systolic = Q(245, 2)
    /\ risk.risk_level = "LOW"

\* C11: a progress callback that raises does not abort the pipeline: a call
\* that has failed has failed with one of the errors it can end with when no
\* callback is passed.
C11_CallbackFailureContained ==
    pc = "failed" =>
        error \in {"CouldNotOpen", "LowDetectionRate", "DetrendNonFinite",
                   "DegenerateSignal", "FilteringFailed: invalid bandpass range",
                   "FilteringFailed: filtfilt", "NoValidFrequencyBins",
                   "ImplausibleHeartRate", "FindPeaksDistance"}

\* C12: after extract has processed k frames, the green and the red series
\* have k entries each, entry i is the sample of frame i when that frame had a
\* valid ROI and NaN in both series when it had none, and detected_frames is
\* the number of entries that are not NaN; the SignalData returned carries
\* these series unchanged.
C12_SeriesFollowFrames ==
    pc \notin {"init", "open"} =>
        /\ Len(greens) = frame_idx
        /\ Len(reds) = frame_idx
        /\ \A i \in 1..frame_idx :
              IF video.frames[i].face
              THEN /\ greens[i] = video.frames[i].green
                   /\ reds[i] = video.frames[i].red
              ELSE /\ IsNaN(greens[i])
                   /\ IsNaN(reds[i])
        /\ detected_frames = Cardinality({i \in 1..Len(greens) : ~IsNaN(greens[i])})
        /\ detected_frames = Cardinality({i \in 1..Len(reds) : ~IsNaN(reds[i])})
        /\ signal_data # None =>
              /\ signal_data.green = greens
              /\ signal_data.red = reds
              /\ signal_data.detected_frames = detected_frames
              /\ signal_data.total_frames = frame_idx

C12_Witness ==
    /\ pc = "scan"
    /\ frame_idx = 3
    /\ greens = <<QInt(1), NaN, QInt(1)>>
    /\ reds = <<QInt(2), NaN, QInt(2)>>
    /\ detected_frames = 2

\* C13: every beat interval that estimate_rr_intervals returns lies between
\* 300 and 2000 ms.
C13_RrInWindow ==
    (fn = "estimate_rr_intervals" /\ ret.error = "none") =>
        \A i \in 1..Len(ret.rr_intervals) :
            /\ QGe(ret.rr_intervals[i], QInt(300))
            /\ QLe(ret.rr_intervals[i], QInt(2000))

\* C14: experimental_bp_estimate returns a systolic value in [90, 180], a
\* diastolic value in [60, 120], and a systolic value at least 20 above the
\* diastolic one, for every heart rate and SDNN.
C14_BpWithinBounds ==
    fn = "experimental_bp_estimate" =>
        /\ QGe(ret.sbp, QInt(90))
        /\ QLe(ret.sbp, QInt(180))
        /\ QGe(ret.dbp, QInt(60))
        /\ QLe(ret.dbp, QInt(120))
        /\ QGe(QSub(ret.sbp, ret.dbp), QInt(20))

C14_Witness ==
    /\ fn = "experimental_bp_estimate"
    /\ arg.bpm = QInt(100)
    /\ ret.sbp = QInt(135)
    /\ ret.dbp = QInt(95)

\* C15: a numeric SpO2 reported by the pipeline lies in [88, 100].
C15_Spo2InRange ==
    (vitals # None /\ vitals.spo2 # None) =>
        /\ QGe(vitals.spo2, QInt(88))
        /\ QLe(vitals.spo2, QInt(100))

\* C16: the stress index is an inverse mapping from SDNN clamped to
\* [0.5, 10]: with HRV available it lies in [0.5, 10]; it is determined by
\* SDNN (two calls with the same SDNN return the same index); and of two
\* calls that differ only in SDNN the one with the lower SDNN does not
\* return the lower index.
HrvAvailable(a) == ~IsNaN(a.sdnn.sq) /\ ~IsNaN(a.pnn50)

C16_StressInverseOfSdnn ==
    [][(fn = "estimate_stress_level" /\ fn' = "estimate_stress_level"
            /\ HrvAvailable(arg) /\ HrvAvailable(arg'))
          => /\ QGe(ret', Q(1, 2)) /\ QLe(ret', QInt(10))
             /\ arg'.sdnn = arg.sdnn => ret' = ret
             /\ (arg'.pnn50 = arg.pnn50 /\ QLt(arg'.sdnn.sq, arg.sdnn.sq))
                   => QGe(ret', ret)]_vars

\* C17: the sampling rate in the SignalData that extract returns lies in
\* [1, 120] Hz.
C17_FpsWithinRange ==
    signal_data # None =>
        /\ QGe(signal_data.fps, QInt(1))
        /\ QLe(signal_data.fps, QInt(120))

\* C18: for 3 or more intervals (whole milliseconds here), pNN50 is 100 times
\* the number of consecutive pairs that differ by more than 50 ms, divided by
\* the number of consecutive pairs; it is 0 exactly when no pair differs by
\* more than 50 ms, as for [800, 820, 780, 810], and lies in [0, 100].
PairsOver50(rr) ==
    {i \in 1..(Len(rr) - 1) :
        rr[i + 1].num - rr[i].num > 50 \/ rr[i].num - rr[i + 1].num > 50}

C18_Pnn50Definition ==
    (fn = "compute_hrv_metrics" /\ Len(arg) >= 3) =>
        /\ ret.pnn50.num * (Len(arg) - 1) = 100 * Cardinality(PairsOver50(arg)) * ret.pnn50.den
        /\ ret.pnn50.den > 0
        /\ (ret.pnn50 = QInt(0)) <=> (PairsOver50(arg) = {})
        /\ QGe(ret.pnn50, QInt(0))
        /\ QLe(ret.pnn50, QInt(100))
        /\ arg = <<QInt(800), QInt(820), QInt(780), QInt(810)>> => ret.pnn50 = QInt(0)

C18_Witness ==
    /\ fn = "compute_hrv_metrics"
    /\ arg = <<QInt(800), QInt(820), QInt(780), QInt(810)>>
    /\ ret.pnn50 = QInt(0)
    /\ ret.sdnn.sq = Q(875, 4)

\* C19: for n >= 3 intervals (whole milliseconds here), SDNN is the sample
\* standard deviation: its square is the sum of the squared deviations from
\* the mean divided by n - 1, that is (n * sum(x^2) - sum(x)^2) / (n (n - 1));
\* and it is positive when the intervals are not all equal.
IntSum(s) == SumSeq([i \in 1..Len(s) |-> s[i].num])
IntSumSq(s) == SumSeq([i \in 1..Len(s) |-> s[i].num * s[i].num])

C19_SdnnSampleStd ==
    (fn = "compute_hrv_metrics" /\ Len(arg) >= 3) =>
        LET n == Len(arg) IN
        /\ ret.sdnn.sq.den > 0
        /\ ret.sdnn.sq.num * n * (n - 1)
              = (n * IntSumSq(arg) - IntSum(arg) * IntSum(arg)) * ret.sdnn.sq.den
        /\ (\E i \in 1..n : arg[i] # arg[1]) => QGt(ret.sdnn.sq, QInt(0))

\* C20: a 10 s clip whose green channel is a clean 1.2 Hz tone yields a heart
\* rate within 2 BPM of 72, with confidence HIGH.
C20_ToneAt72 ==
    (fn = "estimate_heart_rate" /\ arg.seconds = 10 /\ arg.tone = QInt(120)) =>
        /\ ret.error = "none"
        /\ QGe(ret.bpm, QInt(70))
        /\ QLe(ret.bpm, QInt(74))
        /\ ret.confidence = "HIGH"

\* C22: once an /analyze request has ended, however it ended, the clip it
\* stored is no longer on disk, also while other requests are being handled.
C22_TmpFileRemoved ==
    \A r \in Requests : analyze_pc[r] = "done" => r \notin tmp_files

C22_Witness ==
    \E r, q \in Requests :
        /\ analyze_pc[r] = "done"
        /\ outcome[r] = "400 video processing error"
        /\ analyze_pc[q] = "analysis"
        /\ q \in tmp_files
        /\ r \notin tmp_files

\* C23: GET /results/{request_id} never serves an entry older than CACHE_TTL.
C23_ServedWithinTtl ==
    served # None => served.at - served.timestamp <= CACHE_TTL

\* C24: a forehead box counts as valid exactly when it lies fully inside the
\* frame and has positive area: detect returns 'no face' exactly when every
\* box it derived fails that test, and a box it returns passes it.
InsideWithArea(roi, img_h, img_w) ==
    /\ roi.x >= 0 /\ roi.y >= 0
    /\ roi.w > 0 /\ roi.h > 0
    /\ roi.x + roi.w <= img_w
    /\ roi.y + roi.h <= img_h

DerivedBoxes(a) ==
    (IF a.mediapipe # None THEN {GetForeheadRoi(a.mediapipe)} ELSE {})
    \cup (IF Len(a.haar) > 0 THEN {GetForeheadRoi(LargestFace(a.haar))} ELSE {})

C25_RetryOnceLooser ==
    fn = "estimate_rr_intervals" =>
        /\ ret.passes \in {1, 2}
        /\ ret.passes = 2 <=> ret.first_peaks < MIN_PEAKS_FOR_HRV
        /\ ret.passes = 2 =>
            /\ RetryDistance(arg.fps) >= 1
            /\ RetryDistance(arg.fps) <= MinDistance(arg.fps)
            /\ ret.error = "none"

\* C26: with a progress callback supplied, extract calls it once after each
\* processed frame, in order, with frames_done = 1, 2, ..., whatever frame
\* count the container declares.
C26_CallbackEveryFrame ==
    (progress_callback # None /\ pc \notin {"init", "open", "idle"}) =>
        /\ Len(callback_calls) = frame_idx
        /\ \A i \in 1..Len(callback_calls) : callback_calls[i][1] = i

\* C27: no clip makes the band-pass configuration fail: for every sampling
\* rate extract returns, the normalised band edges satisfy low < high, and the
\* pipeline never ends with the invalid-band filtering error.
C27_BandValidForEveryClip ==
    /\ signal_data # None =>
            QLt(BandLow(BANDPASS_LOW, signal_data.fps),
                BandHigh(BANDPASS_HIGH, signal_data.fps))
    /\ error # "FilteringFailed: invalid bandpass range"

\* C28: estimate_vitals_from_video calls detector.close() exactly once on
\* every exit, a returned result or a failure in any stage, and not before.
C28_DetectorClosedOnce ==
    /\ pc \in {"done", "failed"} => closed = 1
    /\ pc \in {"open", "scan", "process", "estimate", "assess"} => closed = 0

C28_Witness ==
    /\ pc = "failed"
    /\ stages = <<"extract", "process", "estimate">>
    /\ closed = 1

\* C29: for vitals that estimate produced, the heart rate lies in [45, 180]
\* BPM, no blood-pressure alert and no high-stress alert fires, and the risk
\* score is at most 10.
BpAndStressAlerts ==
    {"Estimated BP low (hypotension)",
     "Estimated BP very high (hypertensive crisis)",
     "Estimated BP high (hypertension)",
     "High stress level (low HRV)"}

C29_EstimatedVitalsRiskBound ==
    (fn = "estimate" /\ ret.error = "none") =>
        /\ QGe(ret.vitals.heart_rate_bpm, QInt(45))
        /\ QLe(ret.vitals.heart_rate_bpm, QInt(180))
        /\ \A i \in 1..Len(ret.risk.alerts) : ret.risk.alerts[i] \notin BpAndStressAlerts
        /\ ret.risk.risk_score <= 10

C29_Witness ==
    /\ fn = "estimate"
    /\ ret.error = "none"
    /\ ret.risk.risk_score = 10
    /\ ret.vitals.stress_level = QInt(8)

\* C30: in the live-camera recorder, recording starts only at the end of an
\* unbroken run of aligned frames at least 2 s + 3 s long; recording_active
\* and process_complete are never both true; process_complete is never
\* cleared; and what the polling thread returns on seeing process_complete is
\* the output path, with the writer released.
RecorderStep ==
    /\ (~recording_active /\ recording_active') =>
            /\ aligned_since # 0
            /\ recv_now - aligned_since >= STABLE_SECONDS + COUNTDOWN_SECONDS
            /\ countdown_start - aligned_since >= STABLE_SECONDS
            /\ recv_now - countdown_start >= COUNTDOWN_SECONDS
    /\ ~(recording_active' /\ process_complete')
    /\ process_complete => process_complete'
    /\ ui_result' # "polling" =>
            /\ ui_result' = "recording.mp4"
            /\ output_path' = "recording.mp4"
            /\ video_writer' = "released"

C30_RecorderProtocol == [][RecorderStep]_vars

C30_Witness ==
    /\ ui_result = "recording.mp4"
    /\ process_complete
    /\ recording_start_time > 0
    /\ guidance = "Processing..."

====
